---- MODULE Spec2Model ----
(***************************************************************************)
(* State-machine model of the real-time streaming hooks of the frontend:   *)
(*   useWebSocket        (src/unnamed/part_002)                            *)
(*   useTaskStream       (src/unnamed/part_009, lines 44-469)              *)
(*   useBatchTaskStream  (src/unnamed/part_009, lines 472-563)             *)
(* Each hook instance is one record variable whose fields carry the names  *)
(* of the hook's useState / useRef cells.  Every handler is a function     *)
(* from hook state to hook state, so that handlers that call one another   *)
(* (reconnect = disconnect; connect) compose as in the source.             *)
(***************************************************************************)
EXTENDS Integers, Sequences, FiniteSets, TLC

\* ---------------------------------------------------------------- bounds
MaxSockets == 2        \* WebSocket objects alive at the same time
MaxSends == 3          \* calls of send() without requestId in one behaviour
MaxRequests == 2       \* calls of send() with a requestId in one behaviour
MaxOrphans == 1        \* timers of one kind whose handle was overwritten
MaxConnTimers == 2     \* pending connection-establishment timeouts
MaxSilent == 3         \* heartbeat intervals of silence that are counted

\* ------------------------------------------- configuration (program constants)
config_maxReconnectAttempts == 5
config_reconnectInterval == 3000
config_maxReconnectInterval == 30000
config_reconnectBackoffFactor == <<3, 2>>
config_autoReconnect == TRUE
config_heartbeatInterval == 30000
config_heartbeatTimeout == 5000
enableAutoReconnect == TRUE
ws_enableHeartbeat == TRUE

Sockets == 1..MaxSockets
Msgs == 1..(MaxSends + MaxRequests)
ReqIds == {1, 2}

VARIABLES ws, ts, bt, bo

vars == <<ws, ts, bt, bo>>

\* ------------------------------------------------------------ timer cells
\* A ref that holds a timer handle: ref = the timer the ref points to is
\* pending; orph = pending timers whose handle the ref no longer holds.
NoTimer == [ref |-> FALSE, orph |-> 0]

\* ref.current = setTimeout(...) / setInterval(...), without clearing first
Arm(t) == [ref |-> TRUE, orph |-> IF t.ref THEN t.orph + 1 ELSE t.orph]

\* if (ref.current) { clearTimeout(ref.current); ref.current = null }
Clear(t) == [t EXCEPT !.ref = FALSE]

Pending(t) == (IF t.ref THEN 1 ELSE 0) + t.orph

\* ------------------------------------------------------------- useWebSocket
WsInit ==
  [ status |-> "disconnected", isConnected |-> FALSE, isConnecting |-> FALSE,
    error |-> "null",
    wsRef |-> 0,
    sock |-> [s \in Sockets |-> "FREE"],
    reconnectAttemptsRef |-> 0,
    reconnectTimeoutRef |-> NoTimer,
    heartbeatIntervalRef |-> NoTimer,
    heartbeatTimeoutRef |-> NoTimer,
    pingTimeoutRef |-> NoTimer,
    connectionTimeouts |-> 0,
    messageQueueRef |-> << >>,
    pendingMessagesRef |-> [r \in ReqIds |-> 0],
    messageTimeouts |-> {},
    requestId |-> [m \in Msgs |-> 0],
    queued |-> [m \in Msgs |-> FALSE],
    outcome |-> [m \in Msgs |-> "none"],
    nextMsg |-> 1,
    wire |-> << >>,
    lost |-> {},
    silent |-> 0,
    scheduled |-> 0,
    userClosed |-> {},
    reopened |-> FALSE ]

\* silent, scheduled and userClosed are history: heartbeat intervals since the
\* last inbound frame, reconnects scheduled since the last open or reset, and
\* the sockets whose close() was called by disconnect() and that have not
\* dispatched their close event yet; reopened: a connection has opened after
\* one or more reconnect attempts

\* WebSocket.readyState of socket s (0 = wsRef.current is null).  A socket
\* on which close() was called is CLOSING until its close event is
\* dispatched; FAILED is a closed socket between its error and close events.
ReadyState(w, s) ==
  IF s = 0 THEN "NULL"
  ELSE CASE w.sock[s] = "CONNECTING" -> "CONNECTING"
         [] w.sock[s] = "OPEN" -> "OPEN"
         [] w.sock[s] \in {"CLOSING_C", "CLOSING_O"} -> "CLOSING"
         [] OTHER -> "CLOSED"

FreeSockets(w) == {s \in Sockets : w.sock[s] = "FREE"}

NewSocket(w) == CHOOSE s \in FreeSockets(w) : \A t \in FreeSockets(w) : s <= t

\* WebSocket.close(): a connecting socket fails (error + unclean close will be
\* dispatched), an open socket starts the closing handshake
SocketClose(st) ==
  CASE st = "CONNECTING" -> "CLOSING_C"
    [] st = "OPEN" -> "CLOSING_O"
    [] OTHER -> st

stopHeartbeat(w) ==
  [w EXCEPT !.heartbeatIntervalRef = Clear(@),
            !.heartbeatTimeoutRef = Clear(@),
            !.pingTimeoutRef = Clear(@)]

startHeartbeat(w) ==
  IF ~ws_enableHeartbeat THEN w
  ELSE [w EXCEPT !.heartbeatIntervalRef = Arm(@)]

\* wsRef.current?.send(...) of the queued messages: they reach the wire only
\* when wsRef.current is an open socket (null: skipped, CONNECTING: throws and
\* is caught, CLOSING/CLOSED: discarded by the socket)
FlushQueue(w) ==
  IF Len(w.messageQueueRef) = 0 THEN w
  ELSE IF ReadyState(w, w.wsRef) = "OPEN"
       THEN [w EXCEPT !.wire = @ \o w.messageQueueRef, !.messageQueueRef = << >>]
       ELSE [w EXCEPT !.lost = @ \cup {w.messageQueueRef[i] : i \in 1..Len(w.messageQueueRef)},
                      !.messageQueueRef = << >>]

handleOpen_noReset(w) ==
  startHeartbeat(FlushQueue(
    [w EXCEPT !.status = "connected", !.isConnected = TRUE, !.isConnecting = FALSE,
              !.error = "null",
              !.scheduled = 0, !.silent = 0,
              !.reopened = @ \/ w.reconnectAttemptsRef > 0]))

handleOpen(w) ==
  startHeartbeat(FlushQueue(
    [w EXCEPT !.status = "connected", !.isConnected = TRUE, !.isConnecting = FALSE,
              !.error = "null", !.reconnectAttemptsRef = 0,
              !.scheduled = 0, !.silent = 0,
              !.reopened = @ \/ w.reconnectAttemptsRef > 0]))

handleReconnect(w) ==
  [w EXCEPT !.reconnectAttemptsRef = @ + 1,
            !.status = "reconnecting",
            !.reconnectTimeoutRef = Arm(@),
            !.scheduled = @ + 1]

ReconnectGuard_le(w, wasClean) ==
  enableAutoReconnect /\ ~wasClean /\ w.reconnectAttemptsRef <= config_maxReconnectAttempts

ReconnectGuard(w, wasClean) ==
  enableAutoReconnect /\ ~wasClean /\ w.reconnectAttemptsRef < config_maxReconnectAttempts

handleClose(w, wasClean) ==
  LET w1 == stopHeartbeat([w EXCEPT !.status = "disconnected",
                                    !.isConnected = FALSE, !.isConnecting = FALSE])
  IN IF ReconnectGuard(w1, wasClean) THEN handleReconnect(w1) ELSE w1

handleError(w) ==
  [w EXCEPT !.status = "error", !.isConnecting = FALSE, !.isConnected = FALSE,
            !.error = "CONNECTION_FAILED"]

\* connect(), ic = the isConnecting value the called closure holds
connect(w, ic) ==
  IF ReadyState(w, w.wsRef) = "OPEN" THEN w
  ELSE IF ic THEN w
  ELSE LET s == NewSocket(w)
       IN [w EXCEPT !.isConnecting = TRUE, !.status = "connecting",
                    !.wsRef = s, !.sock[s] = "CONNECTING",
                    !.connectionTimeouts = @ + 1]

disconnect_countsAttempt(w) ==
  LET w1 == stopHeartbeat([w EXCEPT !.reconnectTimeoutRef = Clear(@)])
      w2 == IF w1.wsRef # 0
            THEN [w1 EXCEPT !.sock[w1.wsRef] = SocketClose(@), !.wsRef = 0,
                            !.userClosed = IF w1.sock[w1.wsRef] \in {"CONNECTING", "OPEN"}
                                           THEN @ \cup {w1.wsRef} ELSE @]
            ELSE w1
  IN [w2 EXCEPT !.status = "disconnected", !.isConnected = FALSE,
                !.isConnecting = FALSE, !.error = "null",
                !.reconnectAttemptsRef = @ + 1]

disconnect(w) ==
  LET w1 == stopHeartbeat([w EXCEPT !.reconnectTimeoutRef = Clear(@)])
      w2 == IF w1.wsRef # 0
            THEN [w1 EXCEPT !.sock[w1.wsRef] = SocketClose(@), !.wsRef = 0,
                            !.userClosed = IF w1.sock[w1.wsRef] \in {"CONNECTING", "OPEN"}
                                           THEN @ \cup {w1.wsRef} ELSE @]
            ELSE w1
  IN [w2 EXCEPT !.status = "disconnected", !.isConnected = FALSE,
                !.isConnecting = FALSE, !.error = "null"]

reconnect(w) ==
  connect([disconnect(w) EXCEPT !.reconnectAttemptsRef = 0, !.scheduled = 0],
          w.isConnecting)

send(w, rid) ==
  LET m == w.nextMsg
      w0 == [w EXCEPT !.nextMsg = @ + 1, !.requestId[m] = rid]
  IN IF ReadyState(w, w.wsRef) # "OPEN"
     THEN IF config_autoReconnect
          THEN [w0 EXCEPT !.messageQueueRef = Append(@, m), !.queued[m] = TRUE,
                          !.outcome[m] = "rejected"]
          ELSE [w0 EXCEPT !.outcome[m] = "rejected"]
     ELSE IF rid # 0
          THEN [w0 EXCEPT !.wire = Append(@, m),
                          !.messageTimeouts = @ \cup {m},
                          !.pendingMessagesRef[rid] = m,
                          !.outcome[m] = "pending"]
          ELSE [w0 EXCEPT !.wire = Append(@, m), !.outcome[m] = "resolved"]

Settle(w, m, how) ==
  IF w.outcome[m] = "pending" THEN [w EXCEPT !.outcome[m] = how] ELSE w

\* the setTimeout callback of send() for message m
messageTimeout(w, m) ==
  LET rid == w.requestId[m]
      w1 == [w EXCEPT !.messageTimeouts = @ \ {m}]
  IN IF w1.pendingMessagesRef[rid] # 0
     THEN Settle([w1 EXCEPT !.pendingMessagesRef[rid] = 0], m, "rejected")
     ELSE w1

\* handleMessage for a well-formed frame that carries requestId rid
handleReply(w, rid, isError) ==
  LET p == w.pendingMessagesRef[rid]
      w1 == [w EXCEPT !.silent = 0]
  IN IF p # 0
     THEN Settle([w1 EXCEPT !.messageTimeouts = @ \ {p},
                            !.pendingMessagesRef[rid] = 0],
                 p, IF isError THEN "rejected" ELSE "resolved")
     ELSE w1

\* handleMessage for any other frame (unparsable, invalid, pong, data)
handleMessage(w) == [w EXCEPT !.silent = 0]

\* the interval callback of startHeartbeat
handleHeartbeat(w) ==
  IF ReadyState(w, w.wsRef) # "OPEN" THEN w
  ELSE [w EXCEPT !.pingTimeoutRef = Arm(@)]

\* the connection timeout of connect(): acts on wsRef.current
connectionTimeout(w) ==
  LET w1 == [w EXCEPT !.connectionTimeouts = @ - 1]
  IN IF ReadyState(w, w.wsRef) = "CONNECTING"
     THEN [w1 EXCEPT !.sock[w.wsRef] = SocketClose(@), !.error = "CONNECTION_TIMEOUT"]
     ELSE w1

\* ------------------------------------------------------------ useTaskStream
maxReconnectAttempts == 5
reconnectInterval == 3000
autoReconnect == TRUE
enableHeartbeat == TRUE
retryOnNetworkError == TRUE

MaxAge == 4            \* heartbeat intervals since lastHeartbeat that are counted

ProgressValues == {0, 40, 150}
EventStatuses == {"running", "completed", "cancelled", "retrying"}
FetchedStatuses == {"pending", "completed"}
FetchedProgress == {0, 70}

\* task === null, progress === null
NoTask ==
  [status |-> "null", progress |-> 0, errorMessage |-> "null", currentStep |-> "null",
   startTime |-> FALSE, endTime |-> FALSE]

NoProgress == -1

\* the Task fields the stream handlers read or write
NewTask(st, p) ==
  [status |-> st, progress |-> p, errorMessage |-> "null", currentStep |-> "null",
   startTime |-> FALSE, endTime |-> FALSE]

\* SSE frames: event.data as delivered to eventSource.onmessage
Events ==
  {[type |-> "garbage"], [type |-> "invalid"], [type |-> "unknown"],
   [type |-> "heartbeat"], [type |-> "error"], [type |-> "completed"],
   [type |-> "step"]}
  \cup {[type |-> "progress", progress |-> p] : p \in ProgressValues}
  \cup {[type |-> "status", status |-> st, errorMessage |-> e] :
          st \in EventStatuses, e \in {"null", "E"}}

\* what the callbacks of a render close over and read: isConnected
\* (handleHeartbeat), isConnecting (connect), reconnectAttempts (onerror), and
\* of task whether it is null and its progress (handleEvent)
Closure(t) ==
  [isConnected |-> t.isConnected, isConnecting |-> t.isConnecting,
   reconnectAttempts |-> t.reconnectAttempts,
   taskProgress |-> IF t.task = NoTask THEN NoProgress ELSE t.task.progress]

NoClosure ==
  [isConnected |-> FALSE, isConnecting |-> FALSE, reconnectAttempts |-> 0,
   taskProgress |-> NoProgress]

TsInit ==
  [ progress |-> NoProgress, isConnected |-> FALSE, isConnecting |-> FALSE,
    error |-> "null", task |-> NoTask, reconnectAttempts |-> 0,
    lastHeartbeat |-> MaxAge,
    eventSourceRef |-> "null",
    esClosure |-> NoClosure,
    reconnectTimeoutRef |-> FALSE,
    heartbeatTimeoutRef |-> 0,
    abortControllerRef |-> FALSE, fetching |-> FALSE,
    silent |-> 0,
    online |-> TRUE, hidden |-> FALSE,
    mounted |-> FALSE, effectDeps |-> <<FALSE, FALSE, 0>>, taskChanged |-> FALSE,
    scheduled |-> 0, reopened |-> FALSE ]

\* lastHeartbeat is kept as its age in heartbeat intervals (MaxAge: the
\* initial 0 timestamp, or older than the model counts); heartbeatTimeoutRef
\* as the heartbeat intervals left until the timeout fires (0: not armed)
SetTask(t, v) == [t EXCEPT !.task = v, !.taskChanged = @ \/ v # NoTask]

ts_handleHeartbeat(t, cl) ==
  IF enableHeartbeat /\ cl.isConnected
  THEN [t EXCEPT !.lastHeartbeat = 0, !.heartbeatTimeoutRef = 2]
  ELSE t

\* callback of the timeout armed by handleHeartbeat
heartbeatTimeout(t) ==
  [t EXCEPT !.heartbeatTimeoutRef = 0,
            !.error = "Connection timeout - no heartbeat received",
            !.isConnected = FALSE]

ProgressUpdate_add(prev, p) == [prev EXCEPT !.progress = @ + p]

ProgressUpdate(prev, p) == [prev EXCEPT !.progress = p]

StatusUpdate(prev, ev) ==
  LET u1 == [prev EXCEPT !.status = ev.status]
      u2 == IF ev.errorMessage # "null" THEN [u1 EXCEPT !.errorMessage = ev.errorMessage] ELSE u1
  IN IF ev.status = "completed" THEN [u2 EXCEPT !.endTime = TRUE, !.progress = 100]
     ELSE IF ev.status = "running" /\ ~prev.startTime THEN [u2 EXCEPT !.startTime = TRUE]
     ELSE u2

\* handleEvent as bound to eventSource.onmessage by the render with closure cl
ts_handleEvent(t, cl, ev) ==
  CASE ev.type = "garbage" -> [t EXCEPT !.error = "Failed to parse server event"]
    [] ev.type = "invalid" -> t
    [] ev.type = "progress" ->
         LET t1 == [t EXCEPT !.progress = ev.progress]
         IN IF cl.taskProgress # NoProgress /\ cl.taskProgress # ev.progress
            THEN SetTask(t1, IF t.task # NoTask THEN ProgressUpdate(t.task, ev.progress) ELSE NoTask)
            ELSE t1
    [] ev.type = "status" ->
         SetTask(t, IF t.task = NoTask THEN NoTask ELSE StatusUpdate(t.task, ev))
    [] ev.type = "step" ->
         SetTask(t, IF t.task # NoTask THEN [t.task EXCEPT !.currentStep = "s1"] ELSE NoTask)
    [] ev.type = "heartbeat" -> ts_handleHeartbeat(t, cl)
    [] ev.type = "error" ->
         SetTask([t EXCEPT !.error = "E"],
                 IF t.task # NoTask
                 THEN [t.task EXCEPT !.status = "failed", !.errorMessage = "E", !.endTime = TRUE]
                 ELSE NoTask)
    [] ev.type = "completed" ->
         SetTask(t, IF t.task # NoTask
                    THEN [t.task EXCEPT !.status = "completed", !.progress = 100, !.endTime = TRUE]
                    ELSE NoTask)
    [] OTHER -> t

ts_disconnect(t) ==
  [t EXCEPT !.reconnectTimeoutRef = FALSE, !.heartbeatTimeoutRef = 0,
            !.eventSourceRef = "null", !.esClosure = NoClosure,
            !.abortControllerRef = FALSE, !.fetching = FALSE,
            !.isConnected = FALSE, !.isConnecting = FALSE,
            !.lastHeartbeat = MaxAge]

\* connect() of the render with closure cl, up to the await of the fetch
ts_connect(t, cl) ==
  IF cl.isConnecting THEN t
  ELSE LET t1 == ts_disconnect([t EXCEPT !.isConnecting = TRUE, !.error = "null"])
       IN IF ~t1.online
          THEN [t1 EXCEPT !.error = "No network connection available",
                          !.isConnected = FALSE, !.isConnecting = FALSE]
          ELSE [t1 EXCEPT !.abortControllerRef = TRUE, !.fetching = TRUE,
                          !.eventSourceRef = "CONNECTING", !.esClosure = cl,
                          !.silent = 0]

ts_reconnect(t) ==
  ts_connect([ts_disconnect(t) EXCEPT !.reconnectAttempts = 0, !.error = "null",
                                   !.scheduled = 0],
             Closure(t))

onopen(t) ==
  LET t1 == [t EXCEPT !.eventSourceRef = "OPEN", !.isConnected = TRUE,
                      !.isConnecting = FALSE, !.reconnectAttempts = 0,
                      !.lastHeartbeat = 0, !.silent = 0, !.scheduled = 0,
                      !.reopened = @ \/ t.reconnectAttempts > 0]
  IN IF enableHeartbeat THEN ts_handleHeartbeat(t1, t.esClosure) ELSE t1

RetryGuard(cl) == autoReconnect /\ cl.reconnectAttempts < maxReconnectAttempts

\* eventSource.onerror; closed = the EventSource gave up (readyState CLOSED)
\* instead of retrying by itself (readyState CONNECTING)
onerror(t, closed) ==
  LET cl == t.esClosure
      t1 == [t EXCEPT !.isConnected = FALSE, !.isConnecting = FALSE,
                      !.eventSourceRef = IF closed THEN "CLOSED" ELSE "CONNECTING"]
  IN IF ~closed THEN t1
     ELSE IF RetryGuard(cl)
          THEN [t1 EXCEPT !.reconnectAttempts = cl.reconnectAttempts + 1,
                          !.reconnectTimeoutRef = TRUE,
                          !.scheduled = IF @ <= maxReconnectAttempts THEN @ + 1 ELSE @]
          ELSE [t1 EXCEPT !.error = IF retryOnNetworkError THEN "Connection to server lost"
                                    ELSE "Max reconnection attempts reached"]

\* eventSource.onmessage = handleEvent of the render that created the stream
onmessage(t, ev) == [ts_handleEvent(t, t.esClosure, ev) EXCEPT !.silent = 0]

\* the response of the initial task fetch
fetchResponse(t, data) ==
  LET t1 == [t EXCEPT !.fetching = FALSE]
  IN IF data # NoTask THEN SetTask(t1, data) ELSE t1

\* the interval callback of the heartbeat monitor effect
heartbeatCheck(t) ==
  IF t.lastHeartbeat > 3
  THEN LET t1 == [t EXCEPT !.error = "Connection timeout - no heartbeat received",
                           !.isConnected = FALSE]
       IN IF autoReconnect /\ t.reconnectAttempts < maxReconnectAttempts
          THEN ts_connect([ts_disconnect(t1) EXCEPT !.reconnectAttempts = 0, !.error = "null",
                                   !.scheduled = 0],
                          Closure(t))
          ELSE t1
  ELSE t

\* one pending timer of cell t fires: the one the ref holds, or an orphan
FireRef(t) == [t EXCEPT !.ref = FALSE]

FireOrphan(t) == [t EXCEPT !.orph = @ - 1]

Creates(w, ic) == ReadyState(w, w.wsRef) # "OPEN" /\ ~ic

WsBounded(w) ==
  /\ w.reconnectTimeoutRef.orph <= MaxOrphans
  /\ w.heartbeatIntervalRef.orph <= MaxOrphans
  /\ w.pingTimeoutRef.orph <= MaxOrphans
  /\ w.connectionTimeouts <= MaxConnTimers

\* no event dispatch is in progress (an error event is always followed by the
\* close event of the same socket in the same task)
WsIdle == \A s \in Sockets : ws.sock[s] # "FAILED"

\* ---- caller API
WsConnect ==
  /\ UNCHANGED <<ts, bt, bo>>
  /\ WsIdle
  /\ Creates(ws, ws.isConnecting) => FreeSockets(ws) # {}
  /\ ws' = connect(ws, ws.isConnecting)
  /\ WsBounded(ws')

WsDisconnect ==
  /\ UNCHANGED <<ts, bt, bo>>
  /\ WsIdle
  /\ ws' = disconnect(ws)

WsReconnect ==
  /\ UNCHANGED <<ts, bt, bo>>
  /\ WsIdle
  /\ Creates(disconnect(ws), ws.isConnecting) => FreeSockets(disconnect(ws)) # {}
  /\ ws' = reconnect(ws)
  /\ WsBounded(ws')

PlainSent(w) == Cardinality({m \in Msgs : m < w.nextMsg /\ w.requestId[m] = 0})

RequestsSent(w) == Cardinality({m \in Msgs : m < w.nextMsg /\ w.requestId[m] # 0})

\* send() of a message without requestId
WsSendMessage ==
  /\ UNCHANGED <<ts, bt, bo>>
  /\ WsIdle
  /\ PlainSent(ws) < MaxSends
  /\ ws' = send(ws, 0)

\* send() of a message that carries a requestId
WsSendRequest ==
  /\ UNCHANGED <<ts, bt, bo>>
  /\ WsIdle
  /\ RequestsSent(ws) < MaxRequests
  /\ \E rid \in ReqIds : ws' = send(ws, rid)

WsResetStatistics ==
  /\ UNCHANGED <<ts, bt, bo>>
  /\ WsIdle
  /\ ws.reconnectAttemptsRef # 0
  /\ ws' = [ws EXCEPT !.reconnectAttemptsRef = 0, !.scheduled = 0]

\* ---- transport events
WsOpen ==
  /\ UNCHANGED <<ts, bt, bo>>
  /\ WsIdle
  /\ \E s \in Sockets :
       /\ ws.sock[s] = "CONNECTING"
       /\ ws' = handleOpen([ws EXCEPT !.sock[s] = "OPEN"])
       /\ WsBounded(ws')

WsFail ==
  /\ UNCHANGED <<ts, bt, bo>>
  /\ WsIdle
  /\ \E s \in Sockets :
       /\ ws.sock[s] \in {"CONNECTING", "OPEN", "CLOSING_C"}
       /\ ws' = handleError([ws EXCEPT !.sock[s] = "FAILED"])

WsCloseAfterError ==
  /\ UNCHANGED <<ts, bt, bo>>
  /\ \E s \in Sockets :
       /\ ws.sock[s] = "FAILED"
       /\ ws' = handleClose([ws EXCEPT !.sock[s] = "FREE", !.userClosed = @ \ {s}], FALSE)
       /\ WsBounded(ws')

WsClose ==
  /\ UNCHANGED <<ts, bt, bo>>
  /\ WsIdle
  /\ \E s \in Sockets, wasClean \in BOOLEAN :
       /\ ws.sock[s] \in {"OPEN", "CLOSING_O"}
       /\ ws.sock[s] = "OPEN" => wasClean
       /\ ws' = handleClose([ws EXCEPT !.sock[s] = "FREE", !.userClosed = @ \ {s}], wasClean)
       /\ WsBounded(ws')

WsMessage ==
  /\ UNCHANGED <<ts, bt, bo>>
  /\ WsIdle
  /\ \E s \in Sockets :
       /\ ws.sock[s] = "OPEN"
       /\ \/ ws' = handleMessage(ws)
          \/ \E rid \in ReqIds, isError \in BOOLEAN : ws' = handleReply(ws, rid, isError)
  /\ ws' # ws

\* ---- timers
WsReconnectTimer ==
  /\ UNCHANGED <<ts, bt, bo>>
  /\ WsIdle
  /\ \E t \in {FireRef(ws.reconnectTimeoutRef), FireOrphan(ws.reconnectTimeoutRef)} :
       /\ Pending(t) = Pending(ws.reconnectTimeoutRef) - 1
       /\ t.orph >= 0
       /\ LET w1 == [ws EXCEPT !.reconnectTimeoutRef = t]
          IN /\ Creates(w1, FALSE) => FreeSockets(w1) # {}
             /\ ws' = connect(w1, FALSE)
  /\ WsBounded(ws')

WsConnectionTimeout ==
  /\ UNCHANGED <<ts, bt, bo>>
  /\ WsIdle
  /\ ws.connectionTimeouts > 0
  /\ ws' = connectionTimeout(ws)

\* one heartbeat interval passes.  The ping timeout is shorter than the
\* interval, so the ping of an interval timer has timed out before the same
\* timer fires again
WsHeartbeatInterval ==
  /\ UNCHANGED <<ts, bt, bo>>
  /\ WsIdle
  /\ Pending(ws.heartbeatIntervalRef) > 0 \/ ReadyState(ws, ws.wsRef) = "OPEN"
  /\ (config_heartbeatTimeout < config_heartbeatInterval /\ Pending(ws.heartbeatIntervalRef) = 1)
       => Pending(ws.pingTimeoutRef) = 0
  /\ LET w1 == IF ReadyState(ws, ws.wsRef) = "OPEN" /\ ws.silent < MaxSilent
               THEN [ws EXCEPT !.silent = @ + 1] ELSE ws
     IN ws' = IF Pending(ws.heartbeatIntervalRef) > 0 THEN handleHeartbeat(w1) ELSE w1
  /\ WsBounded(ws')
  /\ ws' # ws

WsPingTimeout ==
  /\ UNCHANGED <<ts, bt, bo>>
  /\ WsIdle
  /\ \E t \in {FireRef(ws.pingTimeoutRef), FireOrphan(ws.pingTimeoutRef)} :
       /\ Pending(t) = Pending(ws.pingTimeoutRef) - 1
       /\ t.orph >= 0
       /\ ws' = [ws EXCEPT !.pingTimeoutRef = t]

WsMessageTimeout ==
  /\ UNCHANGED <<ts, bt, bo>>
  /\ WsIdle
  /\ \E m \in ws.messageTimeouts : ws' = messageTimeout(ws, m)

WsNext ==
  \/ WsConnect \/ WsDisconnect \/ WsReconnect \/ WsSendMessage \/ WsSendRequest
  \/ WsResetStatistics
  \/ WsOpen \/ WsFail \/ WsCloseAfterError \/ WsClose \/ WsMessage
  \/ WsReconnectTimer \/ WsConnectionTimeout \/ WsHeartbeatInterval
  \/ WsPingTimeout \/ WsMessageTimeout

\* ---------------------------------------------------- useTaskStream actions
\* connect is re-created when one of these changes (dependency lists at
\* part_009 lines 105, 209, 327-340); task is compared by identity
Deps(t) == <<t.isConnected, t.isConnecting, t.reconnectAttempts>>

EffectPending(t) == ~t.mounted \/ t.taskChanged \/ t.effectDeps # Deps(t)

\* the mount effect: cleanup (disconnect) of the previous run, then connect()
\* of the current render
TsEffect ==
  /\ UNCHANGED <<ws, bt, bo>>
  /\ EffectPending(ts)
  /\ ts' = [ts_connect(IF ts.mounted THEN ts_disconnect(ts) ELSE ts, Closure(ts))
              EXCEPT !.mounted = TRUE, !.effectDeps = Deps(ts), !.taskChanged = FALSE]

TsReconnect ==
  /\ UNCHANGED <<ws, bt, bo>>
  /\ ts.mounted
  /\ ts' = ts_reconnect(ts)

TsDisconnect ==
  /\ UNCHANGED <<ws, bt, bo>>
  /\ ts.mounted
  /\ ts' = ts_disconnect(ts)
  /\ ts' # ts

TsOpen ==
  /\ UNCHANGED <<ws, bt, bo>>
  /\ ts.eventSourceRef = "CONNECTING"
  /\ ts' = onopen(ts)

TsError ==
  /\ UNCHANGED <<ws, bt, bo>>
  /\ ts.eventSourceRef \in {"CONNECTING", "OPEN"}
  /\ \E closed \in BOOLEAN : ts' = onerror(ts, closed)
  /\ ts' # ts

TsEvent ==
  /\ UNCHANGED <<ws, bt, bo>>
  /\ ts.eventSourceRef = "OPEN"
  /\ \E ev \in Events : ts' = onmessage(ts, ev)
  /\ ts' # ts

TsFetchResponse ==
  /\ UNCHANGED <<ws, bt, bo>>
  /\ ts.fetching
  /\ \E data \in {NoTask} \cup {NewTask(st, p) : st \in FetchedStatuses, p \in FetchedProgress} :
       ts' = fetchResponse(ts, data)

TsReconnectTimer ==
  /\ UNCHANGED <<ws, bt, bo>>
  /\ ts.reconnectTimeoutRef
  /\ ts' = ts_connect([ts EXCEPT !.reconnectTimeoutRef = FALSE], ts.esClosure)

\* one heartbeat interval passes: the heartbeat timeout is due after two of
\* them, the monitor interval (which exists while isConnected) ticks
heartbeatTick(t) ==
  LET t1 == [t EXCEPT !.lastHeartbeat = IF @ < MaxAge THEN @ + 1 ELSE @,
                      !.silent = IF t.eventSourceRef = "OPEN" /\ @ < MaxSilent
                                 THEN @ + 1 ELSE @]
      t2 == CASE t1.heartbeatTimeoutRef = 2 -> [t1 EXCEPT !.heartbeatTimeoutRef = 1]
              [] t1.heartbeatTimeoutRef = 1 -> heartbeatTimeout(t1)
              [] OTHER -> t1
  IN IF enableHeartbeat /\ t.isConnected /\ t2.isConnected
     THEN heartbeatCheck(t2) ELSE t2

TsTick ==
  /\ UNCHANGED <<ws, bt, bo>>
  /\ ts.isConnected \/ ts.heartbeatTimeoutRef > 0 \/ ts.eventSourceRef = "OPEN"
  /\ ts' = heartbeatTick(ts)
  /\ ts' # ts

\* document visibilitychange / window online / offline listeners
TsVisibilityChange ==
  /\ UNCHANGED <<ws, bt, bo>>
  /\ ts.mounted
  /\ \E h \in BOOLEAN :
       /\ h # ts.hidden
       /\ LET t1 == [ts EXCEPT !.hidden = h]
          IN ts' = IF h THEN (IF ts.isConnected THEN ts_disconnect(t1) ELSE t1)
                   ELSE IF ~ts.isConnected /\ ~ts.isConnecting
                        THEN ts_connect(t1, Closure(ts)) ELSE t1

TsOnline ==
  /\ UNCHANGED <<ws, bt, bo>>
  /\ ts.mounted /\ ~ts.online
  /\ LET t1 == [ts EXCEPT !.online = TRUE]
     IN ts' = IF ~ts.isConnected /\ ~ts.isConnecting
              THEN ts_connect([ts_disconnect(t1) EXCEPT !.reconnectAttempts = 0, !.error = "null",
                                   !.scheduled = 0],
                              Closure(ts))
              ELSE t1

TsOffline ==
  /\ UNCHANGED <<ws, bt, bo>>
  /\ ts.mounted /\ ts.online
  /\ LET t1 == [ts EXCEPT !.online = FALSE]
     IN ts' = IF ts.isConnected THEN ts_disconnect(t1) ELSE t1

TsNext ==
  \/ TsEffect \/ TsReconnect \/ TsDisconnect \/ TsOpen \/ TsError \/ TsEvent
  \/ TsFetchResponse \/ TsReconnectTimer \/ TsTick
  \/ TsVisibilityChange \/ TsOnline \/ TsOffline

\* ------------------------------------------------------ useBatchTaskStream
TaskIds == {"A", "B", "C"}

MaxWatched == 3        \* length of the taskIds array

\* the last event the server emitted on the stream of a task
Emitted == {"running", "completed", "error"}

\* tasks is created empty and the hook never calls setTasks; emitted is
\* history of the environment, no state of the hook
BtInit ==
  [ taskIds |-> << >>,
    tasks |-> [i \in {} |-> NoTask],
    overallStats |-> [totalTasks |-> 0, completedTasks |-> 0, failedTasks |-> 0,
                      runningTasks |-> 0, pendingTasks |-> 0],
    emitted |-> [i \in TaskIds |-> "none"] ]

CountStatus(tasks, st) == Cardinality({i \in DOMAIN tasks : tasks[i].status = st})

\* the effect that recomputes overallStats from tasks and taskIds.length
overallStatsEffect(b) ==
  [b EXCEPT !.overallStats =
     [totalTasks |-> Len(b.taskIds),
      completedTasks |-> CountStatus(b.tasks, "completed"),
      failedTasks |-> CountStatus(b.tasks, "failed"),
      runningTasks |-> CountStatus(b.tasks, "running"),
      pendingTasks |-> CountStatus(b.tasks, "pending")]]

RemoveAt(seq, i) == [j \in 1..(Len(seq) - 1) |-> IF j < i THEN seq[j] ELSE seq[j + 1]]

\* the caller renders the hook with one more / one less task id
BtWatch ==
  /\ UNCHANGED <<ws, ts, bo>>
  /\ Len(bt.taskIds) < MaxWatched
  /\ \E id \in TaskIds : bt' = overallStatsEffect([bt EXCEPT !.taskIds = Append(@, id)])

BtUnwatch ==
  /\ UNCHANGED <<ws, ts, bo>>
  /\ \E i \in 1..Len(bt.taskIds) :
       bt' = overallStatsEffect([bt EXCEPT !.taskIds = RemoveAt(@, i)])

\* the server emits an event for a watched task: the hook opens no stream
\* and has no handler, its state is what it was
BtStreamEvent ==
  /\ UNCHANGED <<ws, ts, bo>>
  /\ \E i \in 1..Len(bt.taskIds), e \in Emitted :
       /\ bt.emitted[bt.taskIds[i]] # e
       /\ bt' = [bt EXCEPT !.emitted[bt.taskIds[i]] = e]

BtNext == BtWatch \/ BtUnwatch \/ BtStreamEvent

\* ---------------------------------------------------------- reconnect delay
MaxAttempt == 6        \* reconnects scheduled in a row

ReconnectIntervals == {1000, 3000, 40000}
BackoffFactors == {<<1, 1>>, <<3, 2>>, <<2, 1>>}
MaxReconnectIntervals == {5000, 30000}

ts_maxDelay == 30000

RECURSIVE Pow(_, _)
Pow(b, e) == IF e = 0 THEN 1 ELSE b * Pow(b, e - 1)

\* milliseconds are kept as exact fractions <<numerator, denominator>>
Leq(x, y) == x[1] * y[2] <= y[1] * x[2]

Min(x, y) == IF Leq(x, y) THEN x ELSE y

ws_delay_nocap(cfg, attempts) ==
  <<cfg.reconnectInterval * Pow(cfg.reconnectBackoffFactor[1], attempts - 1),
    Pow(cfg.reconnectBackoffFactor[2], attempts - 1)>>

\* handleReconnect: attempts is reconnectAttemptsRef.current after the ++
ws_delay(cfg, attempts) ==
  Min(<<cfg.reconnectInterval * Pow(cfg.reconnectBackoffFactor[1], attempts - 1),
        Pow(cfg.reconnectBackoffFactor[2], attempts - 1)>>,
      <<cfg.maxReconnectInterval, 1>>)

\* eventSource.onerror: currentAttempts is reconnectAttempts before the increment
ts_delay(interval, currentAttempts) ==
  Min(<<interval * Pow(2, currentAttempts), 1>>, <<ts_maxDelay, 1>>)

NoDelay == <<0, 1>>

BoConfigs ==
  [reconnectInterval : ReconnectIntervals, reconnectBackoffFactor : BackoffFactors,
   maxReconnectInterval : MaxReconnectIntervals]

BoInit ==
  bo \in [config : BoConfigs, attempts : {0},
          wsDelay : {NoDelay}, tsDelay : {NoDelay},
          wsPrev : {NoDelay}, tsPrev : {NoDelay}]

\* one more reconnect is scheduled by both hooks
BoReconnect ==
  /\ UNCHANGED <<ws, ts, bt>>
  /\ bo.attempts < MaxAttempt
  /\ bo' = [bo EXCEPT !.attempts = @ + 1,
                      !.wsPrev = bo.wsDelay, !.tsPrev = bo.tsDelay,
                      !.wsDelay = ws_delay(bo.config, bo.attempts + 1),
                      !.tsDelay = ts_delay(bo.config.reconnectInterval, bo.attempts)]

\* the connection opens: the attempt counters are reset
BoOpen ==
  /\ UNCHANGED <<ws, ts, bt>>
  /\ bo.attempts > 0
  /\ bo' = [bo EXCEPT !.attempts = 0, !.wsDelay = NoDelay, !.tsDelay = NoDelay,
                      !.wsPrev = NoDelay, !.tsPrev = NoDelay]

BoNext == BoReconnect \/ BoOpen

\* ------------------------------------------------------------ specifications
BoDefault ==
  [config |-> [reconnectInterval |-> config_reconnectInterval,
               reconnectBackoffFactor |-> config_reconnectBackoffFactor,
               maxReconnectInterval |-> config_maxReconnectInterval],
   attempts |-> 0, wsDelay |-> NoDelay, tsDelay |-> NoDelay,
   wsPrev |-> NoDelay, tsPrev |-> NoDelay]

Init == ws = WsInit /\ ts = TsInit /\ bt = BtInit /\ bo = BoDefault

Next == WsNext \/ TsNext \/ BtNext \/ BoNext

Spec == Init /\ [][Next]_vars

\* the task reconciler: one stream that connects, is fed by the initial fetch
\* and by server events, and fails
TaskNext ==
  \/ TsEffect \/ TsOpen \/ TsError \/ TsFetchResponse \/ TsEvent
  \/ TsReconnectTimer

SpecTask == Init /\ [][TaskNext]_vars

\* a transport that fails on every attempt, under both hooks.  The effects of
\* a render run before the stream's next failure is dispatched; the reconnect
\* timer of useTaskStream (3000 ms or more) is then always cleared by the
\* cleanup of the mount effect, which setReconnectAttempts re-runs
TsErrorAfterEffects == ~EffectPending(ts) /\ TsError

RetryNext ==
  \/ WsConnect \/ WsFail \/ WsCloseAfterError \/ WsReconnectTimer
  \/ WsConnectionTimeout
  \/ TsEffect \/ TsErrorAfterEffects

SpecRetry == Init /\ [][RetryNext]_vars

\* a transport that fails on every attempt, with the caller's reconnect() and
\* the page's visibility and network callbacks
ExhaustNext ==
  \/ WsConnect \/ WsReconnect \/ WsFail \/ WsCloseAfterError \/ WsReconnectTimer
  \/ WsConnectionTimeout
  \/ TsEffect \/ TsErrorAfterEffects \/ TsReconnect
  \/ TsVisibilityChange \/ TsOnline \/ TsOffline

SpecExhaust == Init /\ [][ExhaustNext]_vars

\* both hooks opened and closed, by the caller and by the server
DisconnectNext ==
  \/ WsConnect \/ WsDisconnect \/ WsOpen \/ WsClose \/ WsConnectionTimeout
  \/ TsEffect \/ TsDisconnect \/ TsOpen

SpecDisconnect == Init /\ [][DisconnectNext]_vars

\* an event stream with its heartbeat timeout and its heartbeat monitor
WatchdogNext == TsEffect \/ TsOpen \/ TsError \/ TsEvent \/ TsTick

SpecWatchdog == Init /\ [][WatchdogNext]_vars

\* connections that fail, open and fail again.  The caller connects while the
\* hook holds no transport, every other connect is the hook's own reconnect
\* timer; the effects of a render run before the stream's next failure is
\* dispatched
WsConnectUnheld == ws.wsRef = 0 /\ WsConnect

ResetNext ==
  \/ WsConnectUnheld \/ WsOpen \/ WsFail \/ WsCloseAfterError \/ WsReconnectTimer
  \/ WsConnectionTimeout
  \/ TsEffect \/ TsOpen \/ TsErrorAfterEffects

SpecReset == Init /\ [][ResetNext]_vars

\* an event stream that opens and fails while the page is hidden and shown and
\* the network goes away and comes back
SignalNext ==
  \/ TsEffect \/ TsOpen \/ TsErrorAfterEffects
  \/ TsVisibilityChange \/ TsOnline \/ TsOffline

SpecSignals == Init /\ [][SignalNext]_vars

\* the connection lifecycle with its heartbeat, without outbound messages
HeartbeatNext ==
  \/ WsConnect \/ WsDisconnect \/ WsOpen \/ WsMessage
  \/ WsFail \/ WsCloseAfterError \/ WsClose \/ WsReconnectTimer
  \/ WsConnectionTimeout \/ WsHeartbeatInterval \/ WsPingTimeout

SpecHeartbeat == Init /\ [][HeartbeatNext]_vars

\* the outbound queue across connection failures and reconnects
QueueNext ==
  \/ WsConnect \/ WsDisconnect \/ WsSendMessage \/ WsOpen
  \/ WsFail \/ WsCloseAfterError \/ WsClose \/ WsReconnectTimer
  \/ WsConnectionTimeout

SpecQueue == Init /\ [][QueueNext]_vars

\* requests that await a reply, on connections that the caller opens and closes
RequestNext ==
  \/ WsConnect \/ WsDisconnect \/ WsSendRequest \/ WsOpen \/ WsMessage
  \/ WsClose \/ WsConnectionTimeout \/ WsMessageTimeout

SpecRequests == Init /\ [][RequestNext]_vars

\* the multi-stream aggregator
\* requests answered by replies and by their timeouts on a connection that
\* the caller does not close
PendingNext ==
  \/ WsConnect \/ WsSendRequest \/ WsOpen \/ WsMessage \/ WsClose
  \/ WsConnectionTimeout \/ WsMessageTimeout

SpecPending == Init /\ [][PendingNext]_vars

SpecBatch == Init /\ [][BtNext]_vars

\* the backoff computation, for every configuration
BackoffInit == ws = WsInit /\ ts = TsInit /\ bt = BtInit /\ BoInit

SpecBackoff == BackoffInit /\ [][BoNext]_vars

\* ------------------------------------------------------------------ claims
TerminalStatuses == {"completed", "failed", "cancelled"}

\* the fields of a snapshot that a terminal status is said to freeze
Frozen(t) == <<t.task.progress, t.task.status, t.task.errorMessage>>

\* C1: every step that delivers a progress or status event to a stream whose
\* task snapshot is terminal (completed, failed, cancelled) leaves the
\* snapshot's progress, status and errorMessage as they were.
C1_TerminalSnapshotImmutable ==
  [][ \A ev \in {e \in Events : e.type \in {"progress", "status"}} :
        ( /\ ts.eventSourceRef = "OPEN"
          /\ ts.task.status \in TerminalStatuses
          /\ ts' = onmessage(ts, ev) )
        => Frozen(ts') = Frozen(ts) ]_vars

\* the hook has given up: an error is surfaced, no transport is left and no
\* reconnect is scheduled
WsErrorState(w) ==
  /\ w.error # "null" /\ ~w.isConnected /\ ~w.isConnecting
  /\ \A s \in Sockets : w.sock[s] = "FREE"
  /\ Pending(w.reconnectTimeoutRef) = 0

TsErrorState(t) ==
  /\ t.error = "Connection to server lost" /\ ~t.isConnected /\ ~t.isConnecting
  /\ t.eventSourceRef = "CLOSED"
  /\ ~t.reconnectTimeoutRef

C3_SilenceForcesReconnect ==
  ws.silent >= 3 =>
    ~(ws.isConnected /\ ws.status = "connected" /\ ReadyState(ws, ws.wsRef) = "OPEN")

\* C4: no message is taken from the queue without being transmitted, and
\* messages are transmitted in the order in which they were passed to send().
C4_QueueFlushedInOrder ==
  /\ ws.lost = {}
  /\ \A i, j \in 1..Len(ws.wire) : i < j => ws.wire[i] < ws.wire[j]

\* C5: every step that is a call of disconnect() ends with an empty
\* pending-request map and with no request left unsettled.
C5_DisconnectRejectsPending ==
  [][ (WsIdle /\ ws' = disconnect(ws)) =>
        /\ \A r \in ReqIds : ws'.pendingMessagesRef[r] = 0
        /\ \A m \in Msgs : ws'.outcome[m] # "pending" ]_vars

\* timers of the connection that are armed
TimersArmed(w) ==
  Pending(w.reconnectTimeoutRef) + Pending(w.heartbeatIntervalRef)
    + Pending(w.heartbeatTimeoutRef) + Pending(w.pingTimeoutRef)
    + w.connectionTimeouts + Cardinality(w.messageTimeouts)

\* C6: every step that is a call of disconnect() ends with no timer armed.
C6_DisconnectCancelsTimers ==
  [][ (WsIdle /\ ws' = disconnect(ws)) => TimersArmed(ws') = 0 ]_vars

\* C9: on an open stream, the handler that has handled a progress event with
\* value p gives, when it handles the same event again, the task snapshot and
\* the progress it gave the first time, and that progress is p (the
\* snapshot's progress is p when the handler was bound to a snapshot with
\* another progress); when the duplicate is handled by the handler of a later
\* render instead, progress is p and the snapshot is unchanged or has
\* progress p.
C9_DuplicateProgressIdempotent ==
  ts.eventSourceRef = "OPEN" =>
    \A p \in ProgressValues :
      LET ev == [type |-> "progress", progress |-> p]
          cl == ts.esClosure
          once == ts_handleEvent(ts, cl, ev)
          twice == ts_handleEvent(once, cl, ev)
          later == ts_handleEvent(once, Closure(once), ev)
      IN /\ twice = once
         /\ twice.progress = p
         /\ ts.task # NoTask /\ cl.taskProgress \notin {NoProgress, p}
               => twice.task.progress = p
         /\ later.progress = p
         /\ later.task = once.task \/ later.task.progress = p

\* a progress event with value 40 has been applied to a snapshot whose
\* handler was bound while its progress was 0
C9_Witness ==
  /\ ts.eventSourceRef = "OPEN"
  /\ ts.esClosure.taskProgress = 0
  /\ ts.progress = 40
  /\ ts.task # NoTask /\ ts.task.progress = 40

\* C7: the four status counts of overallStats add up to totalTasks.
C7_CountsSumToTotal ==
  bt.overallStats.pendingTasks + bt.overallStats.runningTasks
    + bt.overallStats.completedTasks + bt.overallStats.failedTasks
  = bt.overallStats.totalTasks

\* C8: when tasks A, B, C are watched and the server has emitted
\* status=running for A, completed for B and error for C, overallStats is
\* total 3, running 1, completed 1, failed 1, pending 0.
C8_ScenarioStats ==
  ( /\ bt.taskIds = <<"A", "B", "C">>
    /\ bt.emitted["A"] = "running"
    /\ bt.emitted["B"] = "completed"
    /\ bt.emitted["C"] = "error" )
  => bt.overallStats = [totalTasks |-> 3, runningTasks |-> 1, completedTasks |-> 1,
                        failedTasks |-> 1, pendingTasks |-> 0]

\* C10: every scheduled reconnect delay is at most the maximum delay of its
\* hook, and at least the delay of the attempt before it.
C10_DelayBoundedAndMonotone ==
  /\ Leq(bo.wsDelay, <<bo.config.maxReconnectInterval, 1>>)
  /\ Leq(bo.tsDelay, <<ts_maxDelay, 1>>)
  /\ Leq(bo.wsPrev, bo.wsDelay)
  /\ Leq(bo.tsPrev, bo.tsDelay)

\* the fifth reconnect under the default configuration: 3000 * 1.5^4 =
\* 15187.5 ms in useWebSocket, 3000 * 2^4 capped to 30000 ms in useTaskStream
C10_Witness ==
  /\ bo.config = BoDefault.config
  /\ bo.attempts = 5
  /\ bo.wsDelay = <<243000, 16>>
  /\ bo.tsDelay = <<30000, 1>>
  /\ bo.wsPrev = <<81000, 8>>

\* the connection is in the Connected or the Connecting state
WsConnectedOrConnecting(w) ==
  w.isConnected \/ w.isConnecting \/ w.status \in {"connected", "connecting"}

\* C11: every step that is a call of connect() while the connection is
\* Connected or Connecting leaves the whole hook state as it was: no socket is
\* created, none is closed, status, flags, refs and timers are unchanged.
C11_ConnectNoOp ==
  [][ ( /\ WsIdle
        /\ WsConnectedOrConnecting(ws)
        /\ Creates(ws, ws.isConnecting) => FreeSockets(ws) # {}
        /\ ws' = connect(ws, ws.isConnecting) )
      => ws' = ws ]_vars

\* the close event of socket s is dispatched in this step
SocketCloses(s) == ws.sock[s] # "FREE" /\ ws'.sock[s] = "FREE"

\* C12: every step that dispatches the unclean close of a socket that failed
\* while auto-reconnect is enabled and attempts remain schedules a reconnect,
\* and every step that dispatches the close of a socket that disconnect()
\* closed schedules none.
C12_FailureReconnectsDisconnectDoesNot ==
  [][ \A s \in Sockets :
        /\ ( /\ SocketCloses(s) /\ ws.sock[s] = "FAILED" /\ s \notin ws.userClosed
             /\ ReconnectGuard(ws, FALSE) )
           => /\ ws'.scheduled = ws.scheduled + 1
              /\ Pending(ws'.reconnectTimeoutRef) > 0
        /\ ( SocketCloses(s) /\ s \in ws.userClosed )
           => /\ ws'.scheduled = ws.scheduled
              /\ Pending(ws'.reconnectTimeoutRef) <= Pending(ws.reconnectTimeoutRef)
              /\ ws'.status # "reconnecting" ]_vars

\* the reconnect attempts are used up and the last attempt has failed
WsExhausted(w) ==
  /\ w.reconnectAttemptsRef >= config_maxReconnectAttempts
  /\ w.status = "disconnected" /\ w.error # "null"
  /\ ~w.isConnected /\ ~w.isConnecting
  /\ \A s \in Sockets : w.sock[s] = "FREE"

TsExhausted(t) == TsErrorState(t) /\ t.reconnectAttempts >= maxReconnectAttempts

\* C13: from a state in which a hook has used up its reconnect attempts, no
\* step other than the caller's connect() or reconnect() opens a transport:
\* no socket and no event stream starts connecting.
C13_ExhaustedStaysError ==
  [][ /\ ( /\ WsExhausted(ws)
           /\ ws' # connect(ws, ws.isConnecting) /\ ws' # reconnect(ws) )
         => \A s \in Sockets : ws'.sock[s] = "FREE"
      /\ ( TsExhausted(ts) /\ ts' # ts_reconnect(ts) )
         => ts'.eventSourceRef = "CLOSED" /\ TsErrorState(ts') ]_vars

\* C14: a message that send() has put on the queue was answered with a
\* pending or queued indication: the promise of its send() is not rejected.
C14_QueuedSendNotFailure ==
  \A m \in Msgs : ws.queued[m] => ws.outcome[m] # "rejected"

\* C15: the queue has a capacity below the MaxSends messages the caller
\* sends: a send() that finds the queue full is refused and leaves the queue
\* as it is, so the queue never holds all of them.
C15_QueueBounded == Len(ws.messageQueueRef) < MaxSends

\* the connection state of useWebSocket: status and flags, the sockets, the
\* timers and the attempt counter
ConnState(w) ==
  <<w.status, w.isConnected, w.isConnecting, w.sock,
    w.reconnectTimeoutRef, w.heartbeatIntervalRef, w.heartbeatTimeoutRef,
    w.pingTimeoutRef, w.connectionTimeouts, w.reconnectAttemptsRef>>

\* Disconnected: status 'disconnected', no transport and no timer held
WsDisconnectedState(w) ==
  /\ w.status = "disconnected" /\ ~w.isConnected /\ ~w.isConnecting
  /\ ReadyState(w, w.wsRef) \in {"NULL", "CLOSED"}
  /\ ~w.reconnectTimeoutRef.ref /\ ~w.heartbeatIntervalRef.ref
  /\ ~w.heartbeatTimeoutRef.ref /\ ~w.pingTimeoutRef.ref

TsDisconnectedState(t) ==
  /\ ~t.isConnected /\ ~t.isConnecting /\ t.eventSourceRef = "null"
  /\ ~t.reconnectTimeoutRef /\ t.heartbeatTimeoutRef = 0
  /\ ~t.abortControllerRef /\ t.lastHeartbeat = MaxAge

\* C16: in every reachable state, calling disconnect() twice gives the state
\* that calling it once gives, in both hooks; and calling it in a
\* Disconnected state leaves the connection state (status, transport, timers,
\* attempt counter) as it is.
C16_DisconnectIdempotent ==
  /\ WsIdle => disconnect(disconnect(ws)) = disconnect(ws)
  /\ ts_disconnect(ts_disconnect(ts)) = ts_disconnect(ts)
  /\ (WsIdle /\ WsDisconnectedState(ws)) => ConnState(disconnect(ws)) = ConnState(ws)
  /\ TsDisconnectedState(ts) => ts_disconnect(ts) = ts

\* disconnect() has closed an open socket whose close event is still to come,
\* and has closed the event stream that the mount effect reopened after the
\* first open
C16_Witness ==
  /\ ws.status = "disconnected" /\ ws.wsRef = 0
  /\ \E s \in ws.userClosed : ws.sock[s] = "CLOSING_O"
  /\ ts.mounted /\ ts.effectDeps[1] /\ ts.eventSourceRef = "null" /\ ~ts.fetching

\* frames that fail to parse, or that parse to an object without type or
\* timestamp
MalformedEvents == {e \in Events : e.type \in {"garbage", "invalid"}}

\* C17: every step that delivers a malformed frame to an open stream leaves
\* the connected flag, the transport, the error reported to the caller and
\* the task snapshot as they were.
C17_MalformedFrameDropped ==
  [][ \A ev \in MalformedEvents :
        (ts.eventSourceRef = "OPEN" /\ ts' = onmessage(ts, ev))
        => /\ ts'.isConnected = ts.isConnected
           /\ ts'.eventSourceRef = ts.eventSourceRef
           /\ ts'.error = ts.error
           /\ ts'.task = ts.task ]_vars

\* C18: every step that delivers an event, other than a status event with
\* status retrying, to an open stream whose task snapshot is not terminal
\* leaves the snapshot's progress at least as high as it was.
C18_ProgressMonotone ==
  [][ \A ev \in {e \in Events : ~(e.type = "status" /\ e.status = "retrying")} :
        ( /\ ts.eventSourceRef = "OPEN"
          /\ ts.task # NoTask /\ ts.task.status \notin TerminalStatuses
          /\ ts' = onmessage(ts, ev) )
        => ts'.task.progress >= ts.task.progress ]_vars

\* C19: a connected stream that has received a frame of any type since the
\* end of the last heartbeat interval is not declared stale when the
\* interval ends: it stays connected on the same stream and no error is set.
C19_AnyFrameResetsWatchdog ==
  [][ ( /\ ts.isConnected /\ ts.eventSourceRef = "OPEN" /\ ts.silent = 0
        /\ ts' = heartbeatTick(ts) )
      => /\ ts'.isConnected /\ ts'.eventSourceRef = "OPEN"
         /\ ts'.error = ts.error ]_vars

\* heartbeat timers of useWebSocket that are pending
HeartbeatTimersArmed(w) ==
  Pending(w.heartbeatIntervalRef) + Pending(w.pingTimeoutRef)
    + Pending(w.heartbeatTimeoutRef)

\* C20: whenever useWebSocket is not connected (between event dispatches),
\* no heartbeat interval, ping timeout or heartbeat timeout is pending.
C20_HeartbeatOnlyWhileConnected ==
  (WsIdle /\ ~ws.isConnected) => HeartbeatTimersArmed(ws) = 0

\* C21: every step in which a transport opens leaves the attempt counter at
\* 0, and the first reconnect scheduled after an open is attempt 1, with the
\* base delay.
C21_OpenResetsAttempts ==
  [][ /\ (\E s \in Sockets : ws.sock[s] = "CONNECTING" /\ ws'.sock[s] = "OPEN")
         => ws'.reconnectAttemptsRef = 0
      /\ (ws.scheduled = 0 /\ ws'.scheduled = 1)
         => /\ ws'.reconnectAttemptsRef = 1
            /\ ws_delay(BoDefault.config, ws'.reconnectAttemptsRef)
                 = <<config_reconnectInterval, 1>>
      /\ (ts.eventSourceRef = "CONNECTING" /\ ts'.eventSourceRef = "OPEN")
         => ts'.reconnectAttempts = 0
      /\ (ts.scheduled = 0 /\ ts'.scheduled = 1)
         => /\ ts'.reconnectAttempts = 1
            /\ ts_delay(reconnectInterval, ts'.reconnectAttempts - 1)
                 = <<reconnectInterval, 1>> ]_vars

\* both hooks have opened after failed attempts, have failed again and have
\* scheduled attempt 1
C21_Witness ==
  /\ ws.reopened /\ ws.scheduled = 1 /\ ws.reconnectAttemptsRef = 1
  /\ Pending(ws.reconnectTimeoutRef) > 0
  /\ ts.reopened /\ ts.scheduled = 1 /\ ts.reconnectAttempts = 1
  /\ ts.reconnectTimeoutRef

\* C22: a "hidden" or "offline" signal that finds the stream connected leaves
\* it disconnected, and a "visible" or "online" signal that finds the task
\* neither connected nor connecting reconnects from scratch: the attempt
\* counter is 0 afterwards and, with the network available, a stream is
\* connecting.
C22_SignalsReconnectFromScratch ==
  [][ /\ ( /\ (~ts.hidden /\ ts'.hidden) \/ (ts.online /\ ~ts'.online)
           /\ ts.isConnected )
         => ts'.eventSourceRef = "null" /\ ~ts'.isConnected
      /\ ( /\ (ts.hidden /\ ~ts'.hidden) \/ (~ts.online /\ ts'.online)
           /\ ~ts.isConnected /\ ~ts.isConnecting )
         => /\ ts'.reconnectAttempts = 0
            /\ ts'.online => ts'.eventSourceRef = "CONNECTING" ]_vars

\* C23: a request that is not settled yet has its entry in the pending map
\* and its timeout armed, so that the reply or the timeout, whichever comes
\* first, settles it; an entry of the map belongs to a request that is not
\* settled yet (a settled request has been removed); and the outcome of a
\* settled request never changes.  This includes requests that reuse the
\* requestId of a request still pending.
C23_PendingSettledOnce ==
  [][ /\ \A m \in Msgs :
           ws.outcome[m] = "pending"
             => /\ ws.pendingMessagesRef[ws.requestId[m]] = m
                /\ m \in ws.messageTimeouts
      /\ \A r \in ReqIds :
           ws.pendingMessagesRef[r] # 0
             => ws.outcome[ws.pendingMessagesRef[r]] = "pending"
      /\ \A m \in Msgs :
           ws.outcome[m] \in {"resolved", "rejected"}
             => ws'.outcome[m] = ws.outcome[m] ]_vars

\* C24: a step that is the timeout of request m rejects m if m was not
\* settled, and leaves everything else alone: the connection status, the
\* transport, and the map entry, the timer and the outcome of every other
\* request.
C24_TimeoutRejectsOnlyItsRequest ==
  [][ \A m \in ws.messageTimeouts :
        (WsIdle /\ ws' = messageTimeout(ws, m))
          => /\ ws.outcome[m] = "pending" => ws'.outcome[m] = "rejected"
             /\ ws'.status = ws.status /\ ws'.wsRef = ws.wsRef /\ ws'.sock = ws.sock
             /\ \A o \in Msgs \ {m} :
                  /\ ws'.outcome[o] = ws.outcome[o]
                  /\ o \in ws'.messageTimeouts <=> o \in ws.messageTimeouts
             /\ \A r \in ReqIds :
                  ws.pendingMessagesRef[r] \notin {0, m}
                    => ws'.pendingMessagesRef[r] = ws.pendingMessagesRef[r] ]_vars

\* C25: the progress state and the progress of the task snapshot are always
\* between 0 and 100.
C25_ProgressInRange ==
  /\ ts.progress # NoProgress => ts.progress \in 0..100
  /\ ts.task # NoTask => ts.task.progress \in 0..100

\* C26: every step that delivers a status, step, error or completed event to
\* an open stream whose hook has no task snapshot ends with a snapshot that
\* reflects the event.
C26_FirstEventCreatesSnapshot ==
  [][ \A ev \in {e \in Events : e.type \in {"status", "step", "error", "completed"}} :
        ( /\ ts.eventSourceRef = "OPEN"
          /\ ts.task = NoTask
          /\ ts' = onmessage(ts, ev) )
        => /\ ts'.task # NoTask
           /\ ev.type = "status" => ts'.task.status = ev.status
           /\ ev.type = "step" => ts'.task.currentStep # "null"
           /\ ev.type = "error" => ts'.task.status = "failed"
           /\ ev.type = "completed" => ts'.task.status = "completed" ]_vars

\* the task snapshot holds a status or a progress that no fetched task has:
\* a stream event has written it
StreamWritten(t) ==
  /\ t.task # NoTask
  /\ t.task.status \notin FetchedStatuses \/ t.task.progress \notin FetchedProgress

\* C27: every step that delivers the initial fetch response to a hook whose
\* snapshot was written by stream events keeps a terminal status and does
\* not lower the progress.
C27_FetchKeepsStreamState ==
  [][ \A data \in {NewTask(st, p) : st \in FetchedStatuses, p \in FetchedProgress} :
        ( /\ ts.fetching /\ StreamWritten(ts)
          /\ ts' = fetchResponse(ts, data) )
        => /\ ts.task.status \in TerminalStatuses => ts'.task.status = ts.task.status
           /\ ts'.task.progress >= ts.task.progress ]_vars

\* C28: a connection timeout that fires while a later one is pending was
\* armed for an earlier attempt (the timeouts have one delay and fire in the
\* order they were armed, and the current transport was created last); such
\* a step closes no transport and sets no error.
C28_TimeoutClosesOwnAttempt ==
  [][ ( /\ WsIdle /\ ws.connectionTimeouts >= 2
        /\ ws' = connectionTimeout(ws) )
      => ws'.sock = ws.sock /\ ws'.error = ws.error ]_vars

\* transports of the connection that are open or opening
LiveSockets(w) == {s \in Sockets : w.sock[s] \in {"CONNECTING", "OPEN"}}

\* C29: at most one transport of the connection is open or opening, and it
\* is the one the connection holds in wsRef.
C29_OneLiveTransport ==
  /\ Cardinality(LiveSockets(ws)) <= 1
  /\ LiveSockets(ws) \subseteq {ws.wsRef}

\* C30: the attempt counter of each hook is between 0 and its
\* maxReconnectAttempts, and each connection has at most one reconnect timer
\* pending.
C30_AttemptsAndTimerBounded ==
  /\ ws.reconnectAttemptsRef \in 0..config_maxReconnectAttempts
  /\ ts.reconnectAttempts \in 0..maxReconnectAttempts
  /\ Pending(ws.reconnectTimeoutRef) <= 1

====
